---- MODULE Spec2Model ----
(***************************************************************************)
(* Model of RecaptchaSolver (GoogleRecaptchaBypass/RecaptchaSolver.py):    *)
(* one solveCaptcha call is a straight-line sequence of try blocks, each   *)
(* of which either falls through to the next block or logs an error and    *)
(* returns.  The browser, the download, pydub and the speech recogniser    *)
(* are the environment: every call to them succeeds or raises.             *)
(***************************************************************************)
EXTENDS Integers, Sequences, FiniteSets, TLC

\* ------------------------------------------------------------ bounds ----
\* random.randrange(1, 1000) draws the temp file number; the model draws it
\* from 1..MaxRand.
MaxRand == 2
\* Longest text the recogniser returns in the model.
MaxKeyLen == 2
\* How many times the caller invokes solveCaptcha on the same solver object.
MaxCalls == 2
\* Largest number of engines, of queries and of pages in a run of the driver.
MaxEngines == 2
MaxQueries == 2
MaxPages == 2
\* Number of 0.5 s polls after which elapsed > max_wait (60 in the program,
\* where max_wait is 30 s).
MaxWaitTicks == 2
\* Largest number of text fragments of a page that the model tells apart.
MaxFragments == 1
\* Largest number of anchors a selector returns on a results page.
MaxAnchors == 2

\* ------------------------------------------------------------- state ----
VARIABLES
    pc,          \* position of the control flow of solveCaptcha
    trace,       \* prints and external calls of the running call, in order
    files,       \* temp files that exist on disk
    created,     \* temp files written by the running call
    mp3, wav,    \* path_to_mp3 / path_to_wav (0: not yet chosen)
    recognized,  \* recognize_google has returned in the running call
    key,         \* its return value
    typed,       \* inputs sent to '#audio-response' in the running call
    indicator,   \* what the lookup inside isSolved found in the running call
    exitAt,      \* source line at which the running call was left
    result,      \* what the call handed to its caller
    history,     \* (exit, result) of the calls completed so far
    ncalls,      \* number of calls made
    iframe_inner, \* the local iframe_inner: position in trace of the locate
                 \* call that produced the reference (0: unbound)
    iframe,      \* the local iframe, likewise
    used,        \* which reference each element query of the call went through
    prompted     \* maybe_solve_recaptcha asked the user to solve manually

\* Two solve attempts running at the same time (ConcSpec), each in its own
\* solveCaptcha call on its own browser: only their file steps are modelled.
VARIABLES
    cpc,         \* per attempt: the block of solveCaptcha it is about to run
    cmp3, cwav,  \* per attempt: path_to_mp3 / path_to_wav (0: not yet chosen)
    cdisk,       \* the temp directory: pairs <<file, attempt whose audio it holds>>
    cread        \* which attempt's audio each read of a temp file returned
concVars == <<cpc, cmp3, cwav, cdisk, cread>>

solverVars == <<pc, trace, files, created, mp3, wav, recognized, key, typed,
                indicator, exitAt, result, history, ncalls,
                iframe_inner, iframe, used, prompted>>

\* run_query_with_browser of GooFuzz.py and of GooFuzz_minimal.py (DrvSpec).
VARIABLES
    variant,     \* which of the two files runs
    nEngines,    \* len(engines)
    nQueries,    \* len(queries)
    pages,       \* pages
    delay,       \* delay
    keep_open,   \* keep_open
    dpc,         \* position of the control flow of run_query_with_browser
    eng, qry, page_idx,  \* the three loop variables (engine and query as indices)
    waited,      \* iterations of the load wait loop made for the current page
    loaded,      \* the load wait saw the body element of the current page
    extraction_attempts,
    links,       \* the last extraction returned links
    requested,   \* a search page has been requested before
    sinceDelay,  \* time.sleep(delay) has run since the last request
    gapDelayed,  \* ... and had run when the last request was issued
    solvePage,   \* page object on which the last ban page was detected (0: none)
    solveDriver, \* solver.driver when the solver was invoked for it
    closed,      \* number of browser.close() calls
    crashed,     \* an exception is propagating out of run_query_with_browser
    raisedIn,    \* the call of the page loop that exception came out of
    html,        \* the local html of maybe_solve_recaptcha while it runs
    solverRuns,  \* solver.solveCaptcha() calls made for the current page
    retry_sleeps, \* time.sleep(3) calls made for the current page
    stopped      \* engines on which the user declined to continue

drvVars == <<variant, nEngines, nQueries, pages, delay, keep_open, dpc, eng, qry,
             page_idx, waited, loaded, extraction_attempts, links, requested,
             sinceDelay, gapDelayed, solvePage, solveDriver, closed, crashed,
             raisedIn, html, solverRuns, retry_sleeps, stopped>>

\* main and the page loop of GooFuzz.py on one query at a time (QuerySpec).
VARIABLES
    xpc,         \* position: main, the filetype decision, the extraction
    xtarget,     \* args.target
    xmode,       \* the mode chosen on the command line
    xarg,        \* the argument of that mode
    xqueries,    \* queries
    xi,          \* position of <<label, query>> in queries
    xfiletype,   \* filetype
    xpage,       \* the page the extraction ran on
    xlinks       \* links

queryVars == <<xpc, xtarget, xmode, xarg, xqueries, xi, xfiletype, xpage, xlinks>>

\* The containers of run_query_with_browser (ResultsSpec).
VARIABLES
    rpc,         \* position: extraction or processing, automatic or realtime
    reng,        \* engine (as an index) whose tab is being read
    rlinks,      \* links
    seen_links,
    all_results_for_output,
    urls_by_engine,
    yielded_by   \* pairs <<link, engine whose tab returned it first>>

resVars == <<rpc, reng, rlinks, seen_links, all_results_for_output, urls_by_engine,
             yielded_by>>

otherVars == <<concVars, drvVars, queryVars, resVars>>

vars == <<solverVars, concVars, drvVars, queryVars, resVars>>

\* Characters of the recognised text; str.lower() maps the upper-case ones.
Chars == {"A", "a"}

KeyTexts == UNION {[1..n -> Chars] : n \in 0..MaxKeyLen}

LowerChar(c) == IF c = "A" THEN "a" ELSE c

LowerMut(s) == s

\* key.lower()
Lower(s) == [i \in 1..Len(s) |-> LowerChar(s[i])]

\* Keys.ENTER
ENTER == <<"ENTER">>

\* The value of a bare `return` and of falling off the end of the function.
ResultNone == <<"None">>

\* The exception that leaves solveCaptcha through line 36.
ResultRaised == <<"UnboundLocalError">>

\* KeyboardInterrupt leaving solveCaptcha.
ResultInterrupted == <<"KeyboardInterrupt">>

NoResult == <<>>

Mp3File(n) == <<n, "mp3">>
WavFile(n) == <<n, "wav">>

Info(step) == <<"INFO", step, TRUE>>
Error(step) == <<"ERROR", step, TRUE>>
CallOf(op, ok) == <<"CALL", op, ok>>
\* A print("[INFO] ...", value) that raised instead of writing its line.
LogFailed(step) == <<"INFO", step, FALSE>>

\* An element query `ref(selector)` made for operation op; at is the position
\* of the operation in trace.
Use(op, ref, at) == [op |-> op, ref |-> ref, at |-> at]

Terminal == {"returned", "raised"}

\* A call of solveCaptcha is in progress.
Running == pc \notin ({"idle"} \cup Terminal)

\* A `return` statement (or the end of the function) at source line `line`.
Return(line) ==
    /\ pc' = "returned"
    /\ exitAt' = line
    /\ result' = ResultNone
    /\ history' = history \cup {[exit |-> line, result |-> ResultNone]}

\* An exception leaving solveCaptcha, raised at source line `line`.
Raise(line) ==
    /\ pc' = "raised"
    /\ exitAt' = line
    /\ result' = ResultRaised
    /\ history' = history \cup {[exit |-> line, result |-> ResultRaised]}

Goto(next) ==
    /\ pc' = next
    /\ UNCHANGED <<exitAt, result, history>>

\* maybe_solve_recaptcha is not running: there is no local html.
NoHtml == {<<"unbound", "unbound">>}

\* Python's None.
None == <<"None">>

\* An argument of -w, -e or -c: its text, whether os.path.isfile(text), and
\* the non-empty lines of that file.
Arg(text, isfile, lines) == [text |-> text, isfile |-> isfile, lines |-> lines]

\* page.eles(selector) raised (no list of anchors is returned).
Raises == <<<<"raises">>>>

\* What a results page answers to the engine's selector of organic results,
\* to its selector of the results container and to "css: a[href]": a list
\* of hrefs (None: a.attr("href") raised or the anchor has none), or Raises.
Page(organic, container, any) == [organic |-> organic, container |-> container, any |-> any]

NoPage == Page(Raises, Raises, Raises)

\* The query pipeline is not running (every specification but QuerySpec).
QueryIdle ==
    /\ xpc = "off"
    /\ xtarget = <<>>
    /\ xmode = "raw"
    /\ xarg = Arg(<<>>, FALSE, <<>>)
    /\ xqueries = <<>>
    /\ xi = 0
    /\ xfiletype = None
    /\ xpage = NoPage
    /\ xlinks = <<>>

\* The containers are not in use (every specification but ResultsSpec).
ResultsIdle ==
    /\ rpc = "off"
    /\ reng = 1
    /\ rlinks = <<>>
    /\ seen_links = {}
    /\ all_results_for_output = <<>>
    /\ urls_by_engine = [e \in 1..MaxEngines |-> <<>>]
    /\ yielded_by = {}

\* No solveCaptcha call has been made.
SolverIdle ==
    /\ pc = "idle"
    /\ trace = <<>>
    /\ files = {}
    /\ created = {}
    /\ mp3 = 0
    /\ wav = 0
    /\ recognized = FALSE
    /\ key = <<>>
    /\ typed = <<>>
    /\ indicator = "unknown"
    /\ exitAt = "none"
    /\ result = NoResult
    /\ history = {}
    /\ ncalls = 0
    /\ iframe_inner = 0
    /\ iframe = 0
    /\ used = {}
    /\ prompted = FALSE

\* Two concurrent attempts (see ConcSpec below); nothing runs in Spec.
Procs == {1, 2}

ConcIdle ==
    /\ cpc = [p \in Procs |-> "off"]
    /\ cmp3 = [p \in Procs |-> 0]
    /\ cwav = [p \in Procs |-> 0]
    /\ cdisk = {}
    /\ cread = {}

\* The driver is not running (Spec, ConcSpec).
DrvIdle ==
    /\ variant = "GooFuzz"
    /\ nEngines = 1
    /\ nQueries = 1
    /\ pages = 1
    /\ delay = 0
    /\ keep_open = FALSE
    /\ dpc = "off"
    /\ eng = 1
    /\ qry = 1
    /\ page_idx = 0
    /\ waited = 0
    /\ loaded = FALSE
    /\ extraction_attempts = 0
    /\ links = FALSE
    /\ requested = FALSE
    /\ sinceDelay = FALSE
    /\ gapDelayed = TRUE
    /\ solvePage = 0
    /\ solveDriver = 0
    /\ closed = 0
    /\ crashed = FALSE
    /\ raisedIn = "none"
    /\ html = NoHtml
    /\ solverRuns = 0
    /\ retry_sleeps = 0
    /\ stopped = {}

Init ==
    /\ pc = "idle"
    /\ trace = <<>>
    /\ files = {}
    /\ created = {}
    /\ mp3 = 0
    /\ wav = 0
    /\ recognized = FALSE
    /\ key = <<>>
    /\ typed = <<>>
    /\ indicator = "unknown"
    /\ exitAt = "none"
    /\ result = NoResult
    /\ history = {}
    /\ ncalls = 0
    /\ iframe_inner = 0
    /\ iframe = 0
    /\ used = {}
    /\ prompted = FALSE
    /\ ConcIdle
    /\ DrvIdle
    /\ QueryIdle
    /\ ResultsIdle

\* The caller invokes solver.solveCaptcha(); line 10 prints the start banner.
Call ==
    /\ pc \in {"idle"} \cup Terminal
    /\ ncalls < MaxCalls
    /\ ncalls' = ncalls + 1
    /\ pc' = "locate_widget"
    /\ trace' = <<Info("start")>>
    /\ created' = {}
    /\ mp3' = 0
    /\ wav' = 0
    /\ recognized' = FALSE
    /\ key' = <<>>
    /\ typed' = <<>>
    /\ indicator' = "unknown"
    /\ exitAt' = "none"
    /\ result' = NoResult
    /\ iframe_inner' = 0
    /\ iframe' = 0
    /\ used' = {}
    /\ prompted' = FALSE
    /\ UNCHANGED <<files, history>>
    /\ UNCHANGED otherVars

\* Lines 11-19: locate the iframe titled reCAPTCHA.
LocateWidget ==
    /\ pc = "locate_widget"
    /\ \E ok \in BOOLEAN :
        IF ok
        THEN /\ trace' = trace \o <<Info("locate_widget"), CallOf("locate_widget", TRUE),
                                    Info("locate_widget_done")>>
             /\ iframe_inner' = Len(trace) + 2
             /\ Goto("click_widget")
        ELSE /\ trace' = trace \o <<Info("locate_widget"), CallOf("locate_widget", FALSE),
                                    Error("locate_widget")>>
             /\ UNCHANGED iframe_inner
             /\ Return("L17")
    /\ UNCHANGED <<files, created, mp3, wav, recognized, key, typed, indicator, ncalls>>
    /\ UNCHANGED <<iframe, used, prompted>>
    /\ UNCHANGED otherVars

\* Lines 21-26: the one click on '.rc-anchor-content'.
ClickWidget ==
    /\ pc = "click_widget"
    /\ \E ok \in BOOLEAN :
        IF ok
        THEN /\ trace' = trace \o <<Info("click_widget"), CallOf("click_widget", TRUE)>>
             /\ Goto("wait_iframe")
        ELSE /\ trace' = trace \o <<Info("click_widget"), CallOf("click_widget", FALSE),
                                    Error("click_widget")>>
             /\ Return("L26")
    /\ used' = used \cup {Use("click_widget", iframe_inner, Len(trace) + 2)}
    /\ UNCHANGED <<files, created, mp3, wav, recognized, key, typed, indicator, ncalls>>
    /\ UNCHANGED <<iframe_inner, iframe, prompted>>
    /\ UNCHANGED otherVars

WaitIframeTimeoutMut == Goto("wait_iframe_poll")

\* Lines 31-33: the wait timed out; log and return.
WaitIframeTimeout == Return("L33")

\* Lines 28-33: wait.ele_displayed on the challenge iframe, timeout 10 s.
WaitIframe ==
    /\ pc = "wait_iframe"
    /\ \E ok \in BOOLEAN :
        IF ok
        THEN /\ trace' = trace \o <<Info("wait_iframe"), CallOf("wait_iframe", TRUE)>>
             /\ Goto("is_solved")
        ELSE /\ trace' = trace \o <<Info("wait_iframe"), CallOf("wait_iframe", FALSE),
                                    Error("wait_iframe")>>
             /\ WaitIframeTimeout
    /\ UNCHANGED <<files, created, mp3, wav, recognized, key, typed, indicator, ncalls>>
    /\ UNCHANGED <<iframe_inner, iframe, used, prompted>>
    /\ UNCHANGED otherVars

SolvedAfterClickMut == Goto("locate_iframe")

\* Lines 36-38: isSolved() returned True; log and return.
SolvedAfterClick == Return("L38")

\* Lines 35-38 with isSolved (116-125) inlined.  isSolved assigns `solved`
\* only when the lookup of '.recaptcha-checkbox-checkmark' succeeds; its
\* except branch returns `solved` all the same, which raises
\* UnboundLocalError, and line 36 is outside every try block.
CheckSolved ==
    /\ pc = "is_solved"
    /\ \E found \in {"present", "absent", "error"} :
        /\ indicator' = found
        /\ CASE found = "present" ->
                  /\ trace' = trace \o <<Info("is_solved"), CallOf("query_indicator", TRUE),
                                         Info("is_solved_done"), Info("solved_first_click")>>
                  /\ SolvedAfterClick
             [] found = "absent" ->
                  /\ trace' = trace \o <<Info("is_solved"), CallOf("query_indicator", TRUE),
                                         Info("is_solved_done")>>
                  /\ Goto("locate_iframe")
             [] found = "error" ->
                  /\ trace' = trace \o <<Info("is_solved"), CallOf("query_indicator", FALSE),
                                         Error("is_solved")>>
                  /\ Raise("L125")
    /\ UNCHANGED <<files, created, mp3, wav, recognized, key, typed, ncalls>>
    /\ UNCHANGED <<iframe_inner, iframe, used, prompted>>
    /\ UNCHANGED otherVars

\* Lines 40-46: locate the challenge iframe again.
LocateIframe ==
    /\ pc = "locate_iframe"
    /\ \E ok \in BOOLEAN :
        IF ok
        THEN /\ trace' = trace \o <<Info("locate_iframe"), CallOf("locate_iframe", TRUE),
                                    Info("locate_iframe_done")>>
             /\ iframe' = Len(trace) + 2
             /\ Goto("click_audio")
        ELSE /\ trace' = trace \o <<Info("locate_iframe"), CallOf("locate_iframe", FALSE),
                                    Error("locate_iframe")>>
             /\ UNCHANGED iframe
             /\ Return("L46")
    /\ UNCHANGED <<files, created, mp3, wav, recognized, key, typed, indicator, ncalls>>
    /\ UNCHANGED <<iframe_inner, used, prompted>>
    /\ UNCHANGED otherVars

AudioFrameMut == iframe_inner

\* The reference the audio steps query their elements through: the local
\* `iframe` of line 42 (lines 50, 59, 100, 102).
AudioFrame == iframe

ClickAudioFailedMut == Goto("click_audio")

\* Lines 51-53: the click on the audio button raised; log and return.
ClickAudioFailed == Return("L53")

\* Lines 48-55: click '#recaptcha-audio-button'.
ClickAudio ==
    /\ pc = "click_audio"
    /\ \E ok \in BOOLEAN :
        IF ok
        THEN /\ trace' = trace \o <<Info("click_audio"), CallOf("click_audio", TRUE)>>
             /\ Goto("get_src")
        ELSE /\ trace' = trace \o <<Info("click_audio"), CallOf("click_audio", FALSE),
                                    Error("click_audio")>>
             /\ ClickAudioFailed
    /\ used' = used \cup {Use("click_audio", AudioFrame, Len(trace) + 2)}
    /\ UNCHANGED <<files, created, mp3, wav, recognized, key, typed, indicator, ncalls>>
    /\ UNCHANGED <<iframe_inner, iframe, prompted>>
    /\ UNCHANGED otherVars

AudioSourceReadMut == Goto("convert")

\* Lines 59-65: the src attribute was read; go on to the download block.
AudioSourceRead == Goto("download")

\* Lines 57-63: read the src attribute of '#audio-source'.
GetAudioSource ==
    /\ pc = "get_src"
    /\ \E ok \in BOOLEAN :
        IF ok
        THEN /\ trace' = trace \o <<Info("get_src"), CallOf("get_src", TRUE),
                                    Info("get_src_done")>>
             /\ AudioSourceRead
        ELSE /\ trace' = trace \o <<Info("get_src"), CallOf("get_src", FALSE),
                                    Error("get_src")>>
             /\ Return("L63")
    /\ used' = used \cup {Use("get_src", AudioFrame, Len(trace) + 2)}
    /\ UNCHANGED <<files, created, mp3, wav, recognized, key, typed, indicator, ncalls>>
    /\ UNCHANGED <<iframe_inner, iframe, prompted>>
    /\ UNCHANGED otherVars

DownloadFailedMut == Goto("convert")

\* Lines 73-75: the download raised; log and return.
DownloadFailed == Return("L75")

\* Lines 65-75: choose the two temp paths, then urlretrieve(src, path_to_mp3).
\* A download that raises may have left a partly written file behind.
Download ==
    /\ pc = "download"
    /\ \E n1 \in 1..MaxRand, n2 \in 1..MaxRand, ok \in BOOLEAN, left \in BOOLEAN :
        /\ mp3' = n1
        /\ wav' = n2
        /\ IF ok
           THEN /\ files' = files \cup {Mp3File(n1)}
                /\ created' = created \cup {Mp3File(n1)}
                /\ trace' = trace \o <<Info("download"), CallOf("download", TRUE),
                                       Info("download_done")>>
                /\ Goto("convert")
           ELSE /\ files' = IF left THEN files \cup {Mp3File(n1)} ELSE files
                /\ created' = IF left THEN created \cup {Mp3File(n1)} ELSE created
                /\ trace' = trace \o <<Info("download"), CallOf("download", FALSE),
                                       Error("download")>>
                /\ DownloadFailed
    /\ UNCHANGED <<recognized, key, typed, indicator, ncalls>>
    /\ UNCHANGED <<iframe_inner, iframe, used, prompted>>
    /\ UNCHANGED otherVars

ConvertFailedMut == Goto("recognize")

\* Lines 82-84: the conversion raised; log and return.
ConvertFailed == Return("L84")

\* Lines 77-84: AudioSegment.from_mp3(path_to_mp3), then export to path_to_wav.
\* from_mp3 raises before anything is written; export may raise after it has
\* opened the output file.
Convert ==
    /\ pc = "convert"
    /\ \E r \in {"ok", "fail_decode", "fail_export"}, left \in BOOLEAN :
        CASE r = "ok" ->
               /\ files' = files \cup {WavFile(wav)}
               /\ created' = created \cup {WavFile(wav)}
               /\ trace' = trace \o <<Info("convert"), CallOf("convert", TRUE),
                                      Info("convert_done")>>
               /\ Goto("recognize")
          [] r = "fail_decode" ->
               /\ left = FALSE
               /\ UNCHANGED <<files, created>>
               /\ trace' = trace \o <<Info("convert"), CallOf("convert", FALSE),
                                      Error("convert")>>
               /\ ConvertFailed
          [] r = "fail_export" ->
               /\ files' = IF left THEN files \cup {WavFile(wav)} ELSE files
               /\ created' = IF left THEN created \cup {WavFile(wav)} ELSE created
               /\ trace' = trace \o <<Info("convert"), CallOf("convert", FALSE),
                                      Error("convert")>>
               /\ ConvertFailed
    /\ UNCHANGED <<mp3, wav, recognized, key, typed, indicator, ncalls>>
    /\ UNCHANGED <<iframe_inner, iframe, used, prompted>>
    /\ UNCHANGED otherVars

\* Lines 86-96: record the wav file and send it to recognize_google.
Recognize ==
    /\ pc = "recognize"
    /\ \/ \E k \in KeyTexts :
            /\ recognized' = TRUE
            /\ key' = k
            /\ trace' = trace \o <<Info("recognize"), CallOf("recognize", TRUE),
                                   Info("recognize_done")>>
            /\ Goto("submit")
       \/ /\ UNCHANGED <<recognized, key>>
          /\ trace' = trace \o <<Info("recognize"), CallOf("recognize", FALSE),
                                 Error("recognize")>>
          /\ Return("L96")
    /\ UNCHANGED <<files, created, mp3, wav, typed, indicator, ncalls>>
    /\ UNCHANGED <<iframe_inner, iframe, used, prompted>>
    /\ UNCHANGED otherVars

TextInput(text, ok) == [kind |-> "text", val |-> text, ok |-> ok]
KeyInput(k, ok) == [kind |-> "key", val |-> k, ok |-> ok]

TypingFailedMut(text) == <<TextInput(text, FALSE), KeyInput(ENTER, TRUE)>>

\* Lines 100-105: input(key.lower()) raised; line 102 is skipped, so the
\* failed text input is all that was sent to the answer field.
TypingFailed(text) == <<TextInput(text, FALSE)>>

\* Lines 98-107: input(key.lower()) into '#audio-response', then
\* input(Keys.ENTER); the first call that raises skips the rest.  After the
\* second input the function sleeps 0.4 s and ends (lines 109-114 are
\* commented out).
Submit ==
    /\ pc = "submit"
    /\ \E r \in {"fail_text", "fail_enter", "ok"} :
        CASE r = "fail_text" ->
               /\ typed' = typed \o TypingFailed(Lower(key))
               /\ trace' = trace \o <<Info("submit"), CallOf("input_text", FALSE),
                                      Error("submit")>>
               /\ used' = used \cup {Use("input_text", AudioFrame, Len(trace) + 2)}
               /\ Return("L105")
          [] r = "fail_enter" ->
               /\ typed' = typed \o <<TextInput(Lower(key), TRUE), KeyInput(ENTER, FALSE)>>
               /\ trace' = trace \o <<Info("submit"), CallOf("input_text", TRUE),
                                      CallOf("input_enter", FALSE), Error("submit")>>
               /\ used' = used \cup {Use("input_text", AudioFrame, Len(trace) + 2),
                                      Use("input_enter", AudioFrame, Len(trace) + 3)}
               /\ Return("L105")
          [] r = "ok" ->
               /\ typed' = typed \o <<TextInput(Lower(key), TRUE), KeyInput(ENTER, TRUE)>>
               /\ trace' = trace \o <<Info("submit"), CallOf("input_text", TRUE),
                                      CallOf("input_enter", TRUE)>>
               /\ used' = used \cup {Use("input_text", AudioFrame, Len(trace) + 2),
                                      Use("input_enter", AudioFrame, Len(trace) + 3)}
               /\ Return("L107")
    /\ UNCHANGED <<files, created, mp3, wav, recognized, key, indicator, ncalls>>
    /\ UNCHANGED <<iframe_inner, iframe, prompted>>
    /\ UNCHANGED otherVars

\* GooFuzz.py maybe_solve_recaptcha, lines 258-270, after solver.solveCaptcha()
\* has ended: a normal return is followed by sleep(5) only; an exception that
\* `except Exception` catches is printed and followed by the input() prompt.
\* KeyboardInterrupt is not an Exception and passes through.
MaybeSolveEnd ==
    /\ pc \in Terminal
    /\ pc' = "idle"
    /\ prompted' = (pc = "raised" /\ result = ResultRaised)
    /\ UNCHANGED <<trace, files, created, mp3, wav, recognized, key, typed, indicator,
                   exitAt, result, history, ncalls, iframe_inner, iframe, used>>
    /\ UNCHANGED otherVars

\* Ctrl+C while a call is running: KeyboardInterrupt is raised in the main
\* thread; none of the `except Exception` clauses of solveCaptcha catches it,
\* so it leaves the call at once and nothing is cleaned up.
Interrupt ==
    /\ Running
    /\ pc' = "raised"
    /\ exitAt' = "KeyboardInterrupt"
    /\ result' = ResultInterrupted
    /\ history' = history \cup {[exit |-> "KeyboardInterrupt", result |-> ResultInterrupted]}
    /\ UNCHANGED <<trace, files, created, mp3, wav, recognized, key, typed, indicator,
                   ncalls, iframe_inner, iframe, used, prompted>>
    /\ UNCHANGED otherVars

\* Every step of solveCaptcha (everything but the caller's invocation).
SolveStep ==
    \/ LocateWidget
    \/ ClickWidget
    \/ WaitIframe
    \/ CheckSolved
    \/ LocateIframe
    \/ ClickAudio
    \/ GetAudioSource
    \/ Download
    \/ Convert
    \/ Recognize
    \/ Submit

Next ==
    \/ Call
    \/ LocateWidget
    \/ ClickWidget
    \/ WaitIframe
    \/ CheckSolved
    \/ LocateIframe
    \/ ClickAudio
    \/ GetAudioSource
    \/ Download
    \/ Convert
    \/ Recognize
    \/ Submit
    \/ MaybeSolveEnd

Spec == Init /\ [][Next]_vars

\* The solver with the user able to press Ctrl+C while it runs.
CancelNext ==
    \/ Call
    \/ LocateWidget
    \/ ClickWidget
    \/ WaitIframe
    \/ CheckSolved
    \/ LocateIframe
    \/ ClickAudio
    \/ GetAudioSource
    \/ Download
    \/ Convert
    \/ Recognize
    \/ Submit
    \/ MaybeSolveEnd
    \/ Interrupt

CancelSpec == Init /\ [][CancelNext]_vars

\* Lines 14, 43, 60 and 93: the prints that follow the action inside the try
\* block of a step and format the value the action returned (the iframe
\* object, the src attribute, the recognised text).  When str() of the
\* value raises or its text cannot be encoded for stdout, the exception is
\* caught by the except clause of the step: the error line is printed and
\* solveCaptcha returns, the action having succeeded.
LogFails ==
    /\ \/ /\ pc = "locate_widget"
          /\ trace' = trace \o <<Info("locate_widget"), CallOf("locate_widget", TRUE),
                                 LogFailed("locate_widget_done"), Error("locate_widget")>>
          /\ iframe_inner' = Len(trace) + 2
          /\ Return("L17")
          /\ UNCHANGED <<iframe, used, recognized, key>>
       \/ /\ pc = "locate_iframe"
          /\ trace' = trace \o <<Info("locate_iframe"), CallOf("locate_iframe", TRUE),
                                 LogFailed("locate_iframe_done"), Error("locate_iframe")>>
          /\ iframe' = Len(trace) + 2
          /\ Return("L46")
          /\ UNCHANGED <<iframe_inner, used, recognized, key>>
       \/ /\ pc = "get_src"
          /\ trace' = trace \o <<Info("get_src"), CallOf("get_src", TRUE),
                                 LogFailed("get_src_done"), Error("get_src")>>
          /\ used' = used \cup {Use("get_src", AudioFrame, Len(trace) + 2)}
          /\ Return("L63")
          /\ UNCHANGED <<iframe_inner, iframe, recognized, key>>
       \/ /\ pc = "recognize"
          /\ \E k \in KeyTexts :
                /\ recognized' = TRUE
                /\ key' = k
          /\ trace' = trace \o <<Info("recognize"), CallOf("recognize", TRUE),
                                 LogFailed("recognize_done"), Error("recognize")>>
          /\ Return("L96")
          /\ UNCHANGED <<iframe_inner, iframe, used>>
    /\ UNCHANGED <<files, created, mp3, wav, typed, indicator, ncalls, prompted>>
    /\ UNCHANGED otherVars

\* The solver on a stdout that does not take every line.
LogNext ==
    \/ Call
    \/ LocateWidget
    \/ ClickWidget
    \/ WaitIframe
    \/ CheckSolved
    \/ LocateIframe
    \/ ClickAudio
    \/ GetAudioSource
    \/ Download
    \/ Convert
    \/ Recognize
    \/ Submit
    \/ MaybeSolveEnd
    \/ LogFails

LogSpec == Init /\ [][LogNext]_vars

\* The solver is one synchronous thread: a call that has been entered keeps
\* running, and every external call returns or raises.  Nothing obliges the
\* caller to invoke the solver (again).
LiveSpec == Init /\ [][Next]_vars /\ WF_vars(SolveStep)

\* How a call ended, read off the message printed just before the exit:
\* "[INFO] CAPTCHA resuelto tras el primer clic." (line 37), one of the
\* "[ERROR] No se pudo ..." prints, nothing at all at the end of the function
\* (line 107), or the exception of isSolved.
Outcome(exit) ==
    CASE exit = "L17"  -> <<"Aborted", "WidgetNotFound">>
      [] exit = "L26"  -> <<"Aborted", "ClickFailed">>
      [] exit = "L33"  -> <<"Aborted", "IframeNotVisible">>
      [] exit = "L38"  -> <<"Solved">>
      [] exit = "L46"  -> <<"Aborted", "IframeNotFound">>
      [] exit = "L53"  -> <<"Aborted", "AudioButtonClickFailed">>
      [] exit = "L63"  -> <<"Aborted", "AudioSourceFailed">>
      [] exit = "L75"  -> <<"Aborted", "DownloadFailed">>
      [] exit = "L84"  -> <<"Aborted", "TranscodeFailed">>
      [] exit = "L96"  -> <<"Aborted", "TranscriptionFailed">>
      [] exit = "L105" -> <<"Aborted", "SubmitFailed">>
      [] exit = "L107" -> <<"Submitted">>
      [] exit = "L125" -> <<"Exception">>
      [] exit = "KeyboardInterrupt" -> <<"Exception">>
      [] OTHER         -> <<"Running">>

\* ---------------------------------------------------------- helpers ----
Called(op) == \E i \in 1..Len(trace) : trace[i][1] = "CALL" /\ trace[i][2] = op
CalledOk(op) == \E i \in 1..Len(trace) : trace[i] = CallOf(op, TRUE)
CalledFail(op) == \E i \in 1..Len(trace) : trace[i] = CallOf(op, FALSE)
TextsTyped == {i \in 1..Len(typed) : typed[i].kind = "text"}
KeysTyped == {i \in 1..Len(typed) : typed[i].kind = "key"}

\* ----------------------------------------------------------- claims ----

\* C1: no exception ever propagates out of solveCaptcha; whatever the
\* external steps do (the solved-indicator lookup of isSolved included), the
\* call returns normally.
C1_NoExceptionEscapes == pc # "raised"

\* C2: once solveCaptcha has ended, no temp file (mp3, wav) that the call
\* created exists any more, whatever the outcome.
C2_TempFilesRemoved == pc \in Terminal => created \cap files = {}

\* C3: every call of solveCaptcha that has been entered eventually ends
\* (by returning or by an exception leaving it), whatever the external steps
\* answer; no step leads back into the solver.
C3_Terminates == Running ~> (pc \in Terminal)

C3_Witness == pc = "returned" /\ exitAt = "L107" /\ CalledOk("input_enter")

\* C4: fast path.  When the indicator is present at the check after the
\* initial click, the call ends as Solved, the audio button is never clicked
\* and nothing is downloaded, transcoded or transcribed in that run.
C4_FastPath ==
    indicator = "present" =>
        /\ ~Running
        /\ result = ResultNone
        /\ Outcome(exitAt) = <<"Solved">>
        /\ ~Called("click_audio")
        /\ ~Called("download")
        /\ ~Called("convert")
        /\ ~Called("recognize")

C4_Witness == indicator = "present" /\ pc = "returned" /\ CalledOk("click_widget")

\* C5: when the download fails the call ends as Aborted(DownloadFailed);
\* neither the transcoder nor the transcriber is called and nothing is typed
\* into the answer field in that run.
C5_DownloadFailure ==
    CalledFail("download") =>
        /\ ~Running
        /\ result = ResultNone
        /\ Outcome(exitAt) = <<"Aborted", "DownloadFailed">>
        /\ ~Called("convert")
        /\ ~Called("recognize")
        /\ typed = <<>>

C5_Witness == CalledFail("download") /\ pc = "returned"

\* C6: whatever text is typed into the answer field is the transcriber's
\* output of that run with every upper-case character replaced by its
\* lower-case one.
C6_Lowercased ==
    \A i \in TextsTyped :
        /\ recognized
        /\ Len(typed[i].val) = Len(key)
        /\ \A j \in 1..Len(key) :
              typed[i].val[j] = (IF key[j] = "A" THEN "a" ELSE key[j])

C6_Witness ==
    /\ \E i \in TextsTyped : typed[i].ok
    /\ \E j \in 1..Len(key) : key[j] = "A"

\* C7: on the audio path, once the answer was submitted the solver queries
\* the solved-indicator again and ends as Solved or as Unsolved.
C7_RecheckAfterSubmit ==
    (pc \in Terminal /\ CalledOk("input_enter")) =>
        /\ Outcome(exitAt) \in {<<"Solved">>, <<"Unsolved">>}
        /\ \E i, j \in 1..Len(trace) :
              /\ i < j
              /\ trace[i] = CallOf("input_enter", TRUE)
              /\ trace[j][1] = "CALL"
              /\ trace[j][2] = "query_indicator"

\* C8: when the transcriber returns the empty string the call ends as
\* Aborted(TranscriptionFailed), nothing is typed, no Enter is sent and both
\* temp files are gone.
C8_EmptyTranscript ==
    (pc \in Terminal /\ recognized /\ key = <<>>) =>
        /\ Outcome(exitAt) = <<"Aborted", "TranscriptionFailed">>
        /\ typed = <<>>
        /\ created \cap files = {}

\* C9: the value handed to the caller tells the outcome kinds apart: an
\* aborted run yields Aborted with the reason of the failed step, and two
\* runs that ended with different kinds of outcome yield different values.
C9_ResultDistinguishes ==
    /\ \A h \in history :
          Outcome(h.exit)[1] = "Aborted" => h.result = Outcome(h.exit)
    /\ \A g, h \in history :
          Outcome(g.exit)[1] # Outcome(h.exit)[1] => g.result # h.result

\* C10: a failed initial click does not end the attempt: the solver goes on
\* to the solved-indicator check.
C10_ClickNonFatal ==
    (pc \in Terminal /\ CalledFail("click_widget")) =>
        /\ exitAt # "L26"
        /\ Called("query_indicator")

\* ------------------------------------------- concurrent attempts ----
\* open(path, "wb") by urlretrieve / export: the file now holds `owner`'s audio.
WriteFile(disk, path, owner) == {e \in disk : e[1] # path} \cup {<<path, owner>>}

\* Whose audio the file at `path` holds.
HolderOf(disk, path) == (CHOOSE e \in disk : e[1] = path)[2]

\* An attempt has got through lines 9-63 and reaches the download block.
CStart(p) ==
    /\ cpc[p] = "off"
    /\ cpc' = [cpc EXCEPT ![p] = "download"]
    /\ UNCHANGED <<cmp3, cwav, cdisk, cread>>
    /\ UNCHANGED <<solverVars, drvVars, queryVars, resVars>>

\* Lines 65-75 in attempt p: both paths are /tmp/ + str(random.randrange(1, 1000))
\* + extension, drawn independently of every other attempt; urlretrieve
\* opens path_to_mp3 for writing whether or not the file exists.
CDownload(p) ==
    /\ cpc[p] = "download"
    /\ \E n1 \in 1..MaxRand, n2 \in 1..MaxRand, ok \in BOOLEAN, left \in BOOLEAN :
        /\ cmp3' = [cmp3 EXCEPT ![p] = n1]
        /\ cwav' = [cwav EXCEPT ![p] = n2]
        /\ IF ok
           THEN /\ cdisk' = WriteFile(cdisk, Mp3File(n1), p)
                /\ cpc' = [cpc EXCEPT ![p] = "convert"]
           ELSE /\ cdisk' = IF left THEN WriteFile(cdisk, Mp3File(n1), p) ELSE cdisk
                /\ cpc' = [cpc EXCEPT ![p] = "done"]
    /\ UNCHANGED cread
    /\ UNCHANGED <<solverVars, drvVars, queryVars, resVars>>

\* Lines 77-84 in attempt p: from_mp3 reads whatever is at path_to_mp3 now,
\* export writes the decoded audio to path_to_wav.
CConvert(p) ==
    /\ cpc[p] = "convert"
    /\ cread' = cread \cup {[proc |-> p, file |-> Mp3File(cmp3[p]),
                              holder |-> HolderOf(cdisk, Mp3File(cmp3[p]))]}
    /\ \E ok \in BOOLEAN :
        IF ok
        THEN /\ cdisk' = WriteFile(cdisk, WavFile(cwav[p]), HolderOf(cdisk, Mp3File(cmp3[p])))
             /\ cpc' = [cpc EXCEPT ![p] = "recognize"]
        ELSE /\ UNCHANGED cdisk
             /\ cpc' = [cpc EXCEPT ![p] = "done"]
    /\ UNCHANGED <<cmp3, cwav>>
    /\ UNCHANGED <<solverVars, drvVars, queryVars, resVars>>

\* Lines 86-96 in attempt p: AudioFile(path_to_wav) is read and transcribed.
CRecognize(p) ==
    /\ cpc[p] = "recognize"
    /\ cread' = cread \cup {[proc |-> p, file |-> WavFile(cwav[p]),
                              holder |-> HolderOf(cdisk, WavFile(cwav[p]))]}
    /\ cpc' = [cpc EXCEPT ![p] = "done"]
    /\ UNCHANGED <<cmp3, cwav, cdisk>>
    /\ UNCHANGED <<solverVars, drvVars, queryVars, resVars>>

ConcNext ==
    \/ \E p \in Procs : CStart(p)
    \/ \E p \in Procs : CDownload(p)
    \/ \E p \in Procs : CConvert(p)
    \/ \E p \in Procs : CRecognize(p)

ConcSpec == Init /\ [][ConcNext]_vars

\* ------------------------------------------------------- driver ----
\* max_attempts = 3 (GooFuzz.py line 510)
max_attempts == 3

\* browser = ChromiumPage(); solver = RecaptchaSolver(browser): the solver's
\* driver is the main page object, numbered 1.
Browser == 1

\* engine_tabs[engine]: the main page object for the first engine, a new
\* tab (numbered like the engine) for every other one.
EngineTab(e) == IF e = 1 THEN Browser ELSE e

DrvInit ==
    /\ pc = "idle"
    /\ trace = <<>>
    /\ files = {}
    /\ created = {}
    /\ mp3 = 0
    /\ wav = 0
    /\ recognized = FALSE
    /\ key = <<>>
    /\ typed = <<>>
    /\ indicator = "unknown"
    /\ exitAt = "none"
    /\ result = NoResult
    /\ history = {}
    /\ ncalls = 0
    /\ iframe_inner = 0
    /\ iframe = 0
    /\ used = {}
    /\ prompted = FALSE
    /\ ConcIdle
    /\ QueryIdle
    /\ ResultsIdle
    /\ variant \in {"GooFuzz", "GooFuzz_minimal"}
    /\ nEngines \in 1..MaxEngines
    /\ nQueries \in 1..MaxQueries
    /\ pages \in 1..MaxPages
    /\ delay \in {0, 1}
    /\ keep_open \in BOOLEAN
    /\ dpc = "request"
    /\ eng = 1
    /\ qry = 1
    /\ page_idx = 0
    /\ waited = 0
    /\ loaded = FALSE
    /\ extraction_attempts = 0
    /\ links = FALSE
    /\ requested = FALSE
    /\ sinceDelay = FALSE
    /\ gapDelayed = TRUE
    /\ solvePage = 0
    /\ solveDriver = 0
    /\ closed = 0
    /\ crashed = FALSE
    /\ raisedIn = "none"
    /\ html = NoHtml
    /\ solverRuns = 0
    /\ retry_sleeps = 0
    /\ stopped = {}

DrvParams == <<variant, nEngines, nQueries, pages, delay, keep_open>>

\* Where the three nested for loops go after the current page_idx (e, q, g):
\* the next page, else the next query, else the next engine, else the code
\* after the loops.
AfterLoops ==
    IF variant = "GooFuzz" /\ keep_open THEN "monitor" ELSE "finally"

NextQuery ==
    IF qry < nQueries
    THEN /\ qry' = qry + 1 /\ page_idx' = 0 /\ dpc' = "request" /\ UNCHANGED eng
    ELSE IF eng < nEngines
         THEN /\ eng' = eng + 1 /\ qry' = 1 /\ page_idx' = 0 /\ dpc' = "request"
         ELSE /\ dpc' = AfterLoops /\ UNCHANGED <<eng, qry, page_idx>>

NextPage ==
    IF page_idx < pages - 1
    THEN /\ page_idx' = page_idx + 1 /\ dpc' = "request" /\ UNCHANGED <<eng, qry>>
    ELSE NextQuery

\* An exception raised by the call `stmt` of the page loop leaves the try
\* block of run_query_with_browser.
Propagate(stmt) ==
    /\ crashed' = TRUE
    /\ raisedIn' = stmt
    /\ dpc' = "finally"
    /\ UNCHANGED <<eng, qry, page_idx>>

\* page_obj.get(url) (GooFuzz.py 455-461, GooFuzz_minimal.py 367-370).
DRequest ==
    /\ dpc = "request"
    /\ requested' = TRUE
    /\ gapDelayed' = (~requested \/ sinceDelay)
    /\ sinceDelay' = FALSE
    /\ waited' = 0
    /\ loaded' = FALSE
    /\ extraction_attempts' = 0
    /\ links' = FALSE
    /\ \E ok \in BOOLEAN :
        IF ok
        THEN /\ dpc' = IF variant = "GooFuzz" THEN "wait" ELSE "captcha"
             /\ UNCHANGED <<eng, qry, page_idx, crashed, raisedIn>>
        ELSE Propagate("get")
    /\ solverRuns' = 0
    /\ retry_sleeps' = 0
    /\ UNCHANGED <<DrvParams, solvePage, solveDriver, closed>>
    /\ UNCHANGED <<html, stopped>>
    /\ UNCHANGED <<solverVars, concVars, queryVars, resVars>>

\* elapsed > max_wait (GooFuzz.py 464-465), in polls.
WaitTimedOut(w) == w > MaxWaitTicks

\* One iteration of the load wait loop (GooFuzz.py 463-479).
DWaitPoll ==
    /\ dpc = "wait"
    /\ IF WaitTimedOut(waited)
       THEN /\ dpc' = "captcha"
            /\ UNCHANGED <<waited, loaded>>
       ELSE \E body \in BOOLEAN :
               IF body
               THEN /\ loaded' = TRUE
                    /\ dpc' = "captcha"
                    /\ UNCHANGED waited
               ELSE /\ waited' = waited + 1
                    /\ UNCHANGED <<dpc, loaded>>
    /\ UNCHANGED <<DrvParams, eng, qry, page_idx, extraction_attempts, links, requested,
                   sinceDelay, gapDelayed, solvePage, solveDriver, closed, crashed, raisedIn>>
    /\ UNCHANGED <<html, solverRuns, retry_sleeps, stopped>>
    /\ UNCHANGED <<solverVars, concVars, queryVars, resVars>>

\* The page text that matters to maybe_solve_recaptcha: a set of fragments,
\* each one a text in the spelling of a ban signature or not, written all in
\* lower case or with capitals.
Texts == {"our systems have detected unusual traffic",
          "to continue, please type the characters below",
          "recaptcha",
          "unusual traffic from your computer network",
          "search results"}

HtmlPages == {h \in SUBSET (Texts \X {"lower", "capitals"}) : Cardinality(h) <= MaxFragments}

HtmlLowerMut(h) == h

\* page.html.lower() (GooFuzz.py 247, GooFuzz_minimal.py 287)
HtmlLower(h) == {<<f[1], "lower">> : f \in h}

ban_signaturesMut == {"our systems have detected unusual traffic",
                      "to continue, please type the characters below",
                      "unusual traffic from your computer network"}

\* GooFuzz.py 249-254, GooFuzz_minimal.py 291-296
ban_signatures == {"our systems have detected unusual traffic",
                   "to continue, please type the characters below",
                   "recaptcha",
                   "unusual traffic from your computer network"}

\* any(sig in html for sig in ban_signatures)
BanDetected(h) == \E sig \in ban_signatures : <<sig, "lower">> \in h

\* maybe_solve_recaptcha(page_obj, solver), the read of the page text
\* (GooFuzz.py 247, GooFuzz_minimal.py 286-289).  page.html may raise:
\* GooFuzz.py lets the exception through, GooFuzz_minimal.py returns.
DReadHtml ==
    /\ dpc = "captcha"
    /\ \/ \E h \in HtmlPages :
            /\ html' = HtmlLower(h)
            /\ dpc' = "detect"
            /\ UNCHANGED <<eng, qry, page_idx, crashed, raisedIn>>
       \/ /\ UNCHANGED html
          /\ IF variant = "GooFuzz"
             THEN Propagate("maybe_solve_recaptcha")
             ELSE /\ dpc' = "save"
                  /\ UNCHANGED <<eng, qry, page_idx, crashed, raisedIn>>
    /\ UNCHANGED <<DrvParams, waited, loaded, extraction_attempts, links, requested,
                   sinceDelay, gapDelayed, solvePage, solveDriver, closed>>
    /\ UNCHANGED <<solverRuns, retry_sleeps, stopped>>
    /\ UNCHANGED <<solverVars, concVars, queryVars, resVars>>

\* maybe_solve_recaptcha, the rest (GooFuzz.py 249-270, GooFuzz_minimal.py
\* 291-304).  When a ban signature is found, solver.solveCaptcha() runs once
\* on solver.driver; whether it returns or raises an Exception,
\* maybe_solve_recaptcha returns normally.
DMaybeSolve ==
    /\ dpc = "detect"
    /\ IF BanDetected(html)
       THEN /\ solvePage' = EngineTab(eng)
            /\ solveDriver' = Browser
            /\ solverRuns' = solverRuns + 1
       ELSE UNCHANGED <<solvePage, solveDriver, solverRuns>>
    /\ html' = NoHtml
    /\ dpc' = "save"
    /\ UNCHANGED <<DrvParams, eng, qry, page_idx, waited, loaded, extraction_attempts,
                   links, requested, sinceDelay, gapDelayed, closed, crashed, raisedIn>>
    /\ UNCHANGED <<retry_sleeps, stopped>>
    /\ UNCHANGED <<solverVars, concVars, queryVars, resVars>>

\* GooFuzz.py 484-506, GooFuzz_minimal.py 375-385: the optional HTML dump;
\* its failures are caught.
DSaveHtml ==
    /\ dpc = "save"
    /\ dpc' = IF variant = "GooFuzz" THEN "extract" ELSE "delay"
    /\ UNCHANGED <<DrvParams, eng, qry, page_idx, waited, loaded, extraction_attempts,
                   links, requested, sinceDelay, gapDelayed, solvePage, solveDriver,
                   closed, crashed, raisedIn>>
    /\ UNCHANGED <<html, solverRuns, retry_sleeps, stopped>>
    /\ UNCHANGED <<solverVars, concVars, queryVars, resVars>>

ExtractAgainMut(n) == n < max_attempts + 1

\* while extraction_attempts < max_attempts (GooFuzz.py 513)
ExtractAgain(n) == n < max_attempts

\* One iteration of the extraction loop (GooFuzz.py 513-531), or its exit
\* when the attempts are used up.
DExtract ==
    /\ dpc = "extract"
    /\ IF ExtractAgain(extraction_attempts)
       THEN /\ extraction_attempts' = extraction_attempts + 1
            /\ \E found \in BOOLEAN :
                 /\ links' = found
                 /\ dpc' = IF found THEN "process" ELSE "extract"
                 /\ retry_sleeps' = IF ~found /\ extraction_attempts' < max_attempts
                                     THEN retry_sleeps + 1
                                     ELSE retry_sleeps
       ELSE /\ dpc' = "choice"
            /\ UNCHANGED <<extraction_attempts, links, retry_sleeps>>
    /\ UNCHANGED <<DrvParams, eng, qry, page_idx, waited, loaded, requested,
                   sinceDelay, gapDelayed, solvePage, solveDriver, closed, crashed, raisedIn>>
    /\ UNCHANGED <<html, solverRuns, stopped>>
    /\ UNCHANGED <<solverVars, concVars, queryVars, resVars>>

\* `break` at GooFuzz.py 545: it leaves the innermost loop, `for page_idx in
\* range(pages)`, so the next query of the same engine comes next.
StopSearch == NextQuery

\* GooFuzz.py 533-545: no links after the loop; the user is asked, and any
\* answer but 's' breaks out of the page loop.
DChoice ==
    /\ dpc = "choice"
    /\ \E s \in BOOLEAN :
        IF s
        THEN /\ dpc' = "process"
             /\ UNCHANGED <<eng, qry, page_idx, stopped>>
        ELSE /\ stopped' = stopped \cup {eng}
             /\ StopSearch
    /\ UNCHANGED <<DrvParams, waited, loaded, extraction_attempts, links, requested,
                   sinceDelay, gapDelayed, solvePage, solveDriver, closed, crashed, raisedIn>>
    /\ UNCHANGED <<html, solverRuns, retry_sleeps>>
    /\ UNCHANGED <<solverVars, concVars, queryVars, resVars>>

\* GooFuzz.py 547-564: record the new links.
DProcess ==
    /\ dpc = "process"
    /\ dpc' = "delay"
    /\ UNCHANGED <<DrvParams, eng, qry, page_idx, waited, loaded, extraction_attempts,
                   links, requested, sinceDelay, gapDelayed, solvePage, solveDriver,
                   closed, crashed, raisedIn>>
    /\ UNCHANGED <<html, solverRuns, retry_sleeps, stopped>>
    /\ UNCHANGED <<solverVars, concVars, queryVars, resVars>>

\* GooFuzz.py 566-569: `if delay > 0 and page_idx < pages - 1`;
\* GooFuzz_minimal.py 387-388: `if delay > 0`.
Delays ==
    IF variant = "GooFuzz"
    THEN delay > 0 /\ page_idx < pages - 1
    ELSE delay > 0

\* The end of the page loop body: the delay, then the next iteration.
DDelay ==
    /\ dpc = "delay"
    /\ sinceDelay' = (sinceDelay \/ Delays)
    /\ NextPage
    /\ UNCHANGED <<DrvParams, waited, loaded, extraction_attempts, links, requested,
                   gapDelayed, solvePage, solveDriver, closed, crashed, raisedIn>>
    /\ UNCHANGED <<html, solverRuns, retry_sleeps, stopped>>
    /\ UNCHANGED <<solverVars, concVars, queryVars, resVars>>

\* monitor_tabs_realtime, GooFuzz.py 752-774: one pass over the tabs.
DMonitorPoll ==
    /\ dpc = "monitor"
    /\ dpc' = "monitor_sleep"
    /\ UNCHANGED <<DrvParams, eng, qry, page_idx, waited, loaded, extraction_attempts,
                   links, requested, sinceDelay, gapDelayed, solvePage, solveDriver,
                   closed, crashed, raisedIn>>
    /\ UNCHANGED <<html, solverRuns, retry_sleeps, stopped>>
    /\ UNCHANGED <<solverVars, concVars, queryVars, resVars>>

\* GooFuzz.py 779: time.sleep(poll_interval), then `while True` again.
DMonitorSleep ==
    /\ dpc = "monitor_sleep"
    /\ dpc' = "monitor"
    /\ UNCHANGED <<DrvParams, eng, qry, page_idx, waited, loaded, extraction_attempts,
                   links, requested, sinceDelay, gapDelayed, solvePage, solveDriver,
                   closed, crashed, raisedIn>>
    /\ UNCHANGED <<html, solverRuns, retry_sleeps, stopped>>
    /\ UNCHANGED <<solverVars, concVars, queryVars, resVars>>

\* GooFuzz.py 781-782: Ctrl+C in the terminal ends the realtime mode.
DInterrupt ==
    /\ dpc \in {"monitor", "monitor_sleep"}
    /\ dpc' = "finally"
    /\ UNCHANGED <<DrvParams, eng, qry, page_idx, waited, loaded, extraction_attempts,
                   links, requested, sinceDelay, gapDelayed, solvePage, solveDriver,
                   closed, crashed, raisedIn>>
    /\ UNCHANGED <<html, solverRuns, retry_sleeps, stopped>>
    /\ UNCHANGED <<solverVars, concVars, queryVars, resVars>>

ClosesBrowserMut == TRUE

\* `if not keep_open` (GooFuzz.py 587); run_query_with_browser of
\* GooFuzz_minimal.py has no keep_open and closes always (391).
ClosesBrowser == ~(variant = "GooFuzz" /\ keep_open)

\* GooFuzz.py 585-591: browser.close() unless keep_open;
\* GooFuzz_minimal.py 390-391: browser.close().
DFinally ==
    /\ dpc = "finally"
    /\ closed' = IF ClosesBrowser THEN closed + 1 ELSE closed
    /\ dpc' = IF crashed THEN "raised"
              ELSE IF variant = "GooFuzz" THEN "save_files" ELSE "done"
    /\ UNCHANGED <<DrvParams, eng, qry, page_idx, waited, loaded, extraction_attempts,
                   links, requested, sinceDelay, gapDelayed, solvePage, solveDriver,
                   crashed, raisedIn>>
    /\ UNCHANGED <<html, solverRuns, retry_sleeps, stopped>>
    /\ UNCHANGED <<solverVars, concVars, queryVars, resVars>>

\* GooFuzz.py 593-626: write the per-engine files and the global output file.
DSaveFiles ==
    /\ dpc = "save_files"
    /\ dpc' = "done"
    /\ UNCHANGED <<DrvParams, eng, qry, page_idx, waited, loaded, extraction_attempts,
                   links, requested, sinceDelay, gapDelayed, solvePage, solveDriver,
                   closed, crashed, raisedIn>>
    /\ UNCHANGED <<html, solverRuns, retry_sleeps, stopped>>
    /\ UNCHANGED <<solverVars, concVars, queryVars, resVars>>

\* The steps the program takes by itself (everything but the user's Ctrl+C).
DProgram ==
    \/ DRequest
    \/ DWaitPoll
    \/ DReadHtml
    \/ DMaybeSolve
    \/ DSaveHtml
    \/ DExtract
    \/ DChoice
    \/ DProcess
    \/ DDelay
    \/ DMonitorPoll
    \/ DMonitorSleep
    \/ DFinally
    \/ DSaveFiles

DrvNext ==
    \/ DRequest
    \/ DWaitPoll
    \/ DReadHtml
    \/ DMaybeSolve
    \/ DSaveHtml
    \/ DExtract
    \/ DChoice
    \/ DProcess
    \/ DDelay
    \/ DMonitorPoll
    \/ DMonitorSleep
    \/ DInterrupt
    \/ DFinally
    \/ DSaveFiles

DrvSpec == DrvInit /\ [][DrvNext]_vars

\* The driver is one synchronous thread and every browser call and every
\* prompt returns; nobody is obliged to press Ctrl+C.
DrvLiveSpec == DrvInit /\ [][DrvNext]_vars /\ WF_vars(DProgram)

\* ------------------------------------------------ claims C11 .. C20 ----
CallsOf(op) == {i \in 1..Len(trace) : trace[i][1] = "CALL" /\ trace[i][2] = op}
CallsAt == {i \in 1..Len(trace) : trace[i][1] = "CALL"}
FatalOps == {"locate_widget", "locate_iframe", "click_audio", "get_src", "download",
             "convert", "recognize", "input_text", "input_enter"}
AudioOps == {"click_audio", "get_src", "input_text", "input_enter"}
AudioUses == {u \in used : u.op \in AudioOps}

\* C11: a failure of any step other than the initial click ends the attempt:
\* after the failed call no browser action and no external call is made in
\* that solve (so the step is not retried either).
C11_FailureTerminal ==
    \A i \in CallsAt :
        (trace[i][2] \in FatalOps /\ trace[i][3] = FALSE) =>
            /\ ~Running
            /\ \A j \in CallsAt : j <= i

C11_Witness == CalledFail("convert") /\ pc = "returned"

\* C12: in one solve attempt the widget is clicked at most once, the audio
\* button is clicked at most once, the answer text is typed at most once and
\* Enter is sent at most once.
C12_SideEffectsOnce ==
    /\ \A op \in {"click_widget", "click_audio", "input_text", "input_enter"} :
          Cardinality(CallsOf(op)) <= 1
    /\ Cardinality(TextsTyped) <= 1
    /\ Cardinality(KeysTyped) <= 1

C12_Witness ==
    /\ CalledOk("click_widget")
    /\ CalledOk("click_audio")
    /\ Cardinality(TextsTyped) = 1
    /\ Cardinality(KeysTyped) = 1

\* C13: the widget click precedes every audio-path action, the download has
\* succeeded before the transcoder is called, the transcoder before the
\* transcriber, the transcriber before anything is typed, and download,
\* transcode and transcribe are each called at most once.
C13_StepOrder ==
    /\ \A j \in CallsAt :
          trace[j][2] \in AudioOps \cup {"locate_iframe", "download", "convert", "recognize"} =>
              \E i \in 1..(j - 1) : trace[i] = CallOf("click_widget", TRUE)
    /\ \A j \in CallsOf("convert") :
          \E i \in 1..(j - 1) : trace[i] = CallOf("download", TRUE)
    /\ \A j \in CallsOf("recognize") :
          \E i \in 1..(j - 1) : trace[i] = CallOf("convert", TRUE)
    /\ \A j \in CallsOf("input_text") :
          \E i \in 1..(j - 1) : trace[i] = CallOf("recognize", TRUE)
    /\ \A op \in {"download", "convert", "recognize"} : Cardinality(CallsOf(op)) <= 1

C13_Witness == CalledOk("input_text") /\ CalledOk("convert")

\* C14 (as stated): the reference through which the audio source is read and
\* the answer is typed was located after the click on the audio button.
C14_FreshRefAfterAudioClick ==
    \A u \in used :
        u.op \in {"get_src", "input_text", "input_enter"} =>
            \E i \in CallsOf("click_audio") : u.ref > i

\* C14 (amended): the audio steps do not reuse the widget reference of step
\* one.  The challenge iframe is located once, after the widget click and
\* the not-solved check and before the click on the audio button, and that
\* one reference serves the audio click, the read of the audio source and
\* both inputs.
C14_FreshRefAfterWidgetClick ==
    /\ \A u \in AudioUses :
          /\ u.ref \in 1..Len(trace)
          /\ trace[u.ref] = CallOf("locate_iframe", TRUE)
          /\ \E i \in 1..(u.ref - 1) : trace[i] = CallOf("click_widget", TRUE)
          /\ \E i \in 1..(u.ref - 1) : trace[i] = CallOf("query_indicator", TRUE)
          /\ \A i \in CallsOf("click_audio") : u.ref < i
    /\ \A u, v \in AudioUses : u.ref = v.ref
    /\ \A u \in used : u.op = "click_widget" =>
          /\ u.ref \in 1..Len(trace)
          /\ trace[u.ref] = CallOf("locate_widget", TRUE)

C14_Witness == \E u \in used : u.op = "input_enter" /\ CalledOk("input_enter")

\* C15: two attempts running concurrently never use the same temp file
\* path, and no attempt reads a file that holds the other attempt's audio.
C15_NoPathClash ==
    /\ \A p, q \in Procs :
          (p # q /\ cmp3[p] # 0 /\ cmp3[q] # 0) =>
              /\ cmp3[p] # cmp3[q]
              /\ cwav[p] # cwav[q]
    /\ \A r \in cread : r.holder = r.proc

\* C16: a cancellation requested while the solver runs ends the solve as
\* Aborted(Cancelled); requested before the download step no download is
\* made and nothing is written, and requested later the temp files are
\* removed before the call ends.
C16_Cancellation ==
    exitAt = "KeyboardInterrupt" =>
        /\ pc = "returned"
        /\ Outcome(exitAt) = <<"Aborted", "Cancelled">>
        /\ created \cap files = {}

\* C19: in GooFuzz.py maybe_solve_recaptcha, whenever the solver was run
\* and aborted (by an early return or by raising), the user has been asked
\* to solve the CAPTCHA manually by the time maybe_solve_recaptcha ends.
C19_ManualFallback ==
    (pc = "idle" /\ ncalls > 0 /\ Outcome(exitAt)[1] \in {"Aborted", "Exception"}) =>
        prompted

\* C17: whenever the driver invokes the solver because a ban page was
\* detected on an engine's page object, the solver's browser handle is that
\* page object.
C17_SolverOnDetectedPage == solvePage # 0 => solveDriver = solvePage

\* C20: with delay > 0, the configured delay has elapsed between every two
\* consecutive search-page requests.
C20_DelayBetweenRequests == delay > 0 => gapDelayed

InLoadWait == dpc = "wait"
InExtraction == dpc = "extract"
InMonitor == dpc \in {"monitor", "monitor_sleep"}

\* C18 (as stated): the load wait loop, the extraction loop and the realtime
\* monitoring loop are each left by the program itself once entered.
C18_EveryLoopExits ==
    /\ InLoadWait ~> ~InLoadWait
    /\ InExtraction ~> ~InExtraction
    /\ InMonitor ~> ~InMonitor

\* C18 (amended): the load wait loop is left after at most MaxWaitTicks + 1
\* unsuccessful polls and the extraction loop after at most 3 attempts; the
\* realtime monitoring loop has no bound and is left only by Ctrl+C.
C18_BoundedLoops ==
    /\ [](waited <= MaxWaitTicks + 1 /\ extraction_attempts <= 3)
    /\ InLoadWait ~> ~InLoadWait
    /\ InExtraction ~> ~InExtraction
    /\ [][(InMonitor /\ ~InMonitor') => DInterrupt]_vars

C18_Witness == dpc = "choice" /\ extraction_attempts = 3 /\ waited = MaxWaitTicks + 1

\* ------------------------------------------- queries and link filter ----
\* Strings of GooFuzz.py are sequences of tokens; a token is a run of
\* characters that the program never splits further in the model.

\* The truth value of a string or None (`if not href`, `if filetype`).
Truthy(x) == x # None /\ x # <<>>

\* part in s
Contains(s, part) ==
    \E i \in 0..(Len(s) - Len(part)) : SubSeq(s, i + 1, i + Len(part)) = part

\* s.startswith(part)
StartsWith(s, part) == Len(part) <= Len(s) /\ SubSeq(s, 1, Len(part)) = part

\* s.endswith(part)
EndsWith(s, part) ==
    Len(part) <= Len(s) /\ SubSeq(s, Len(s) - Len(part) + 1, Len(s)) = part

\* str.lower() on one token: "T" and "E" are the spellings with capitals of
\* "t" and "e".
TokLower(c) == CASE c = "T" -> "t" [] c = "E" -> "e" [] OTHER -> c

StrLower(s) == [i \in 1..Len(s) |-> TokLower(s[i])]

\* s.lstrip(".")
LStripDot(s) ==
    LET F[i \in 0..Len(s)] ==
            IF i = Len(s) \/ s[i + 1] # "." THEN SubSeq(s, i + 1, Len(s)) ELSE F[i + 1]
    IN  F[0]

\* [w for w in s.split(",") if w] (the callers drop the empty pieces)
SplitComma(s) ==
    LET F[i \in 0..Len(s)] ==
            \* <<pieces closed so far, piece being read>> after i tokens
            IF i = 0 THEN <<<<>>, <<>>>>
            ELSE IF s[i] = ","
                 THEN <<IF F[i - 1][2] = <<>> THEN F[i - 1][1]
                        ELSE Append(F[i - 1][1], F[i - 1][2]), <<>>>>
                 ELSE <<F[i - 1][1], Append(F[i - 1][2], s[i])>>
    IN  IF F[Len(s)][2] = <<>> THEN F[Len(s)][1]
        ELSE Append(F[Len(s)][1], F[Len(s)][2])

\* The entries an argument stands for (GooFuzz.py 84-96, 116-128, 151-163):
\* the lines of the file, or the comma-separated pieces, or the text itself.
Entries(arg) ==
    IF arg.isfile THEN arg.lines
    ELSE IF Contains(arg.text, <<",">>) THEN SplitComma(arg.text)
    ELSE <<arg.text>>

\* build_extension_list (GooFuzz.py 138-165): every entry without its
\* leading dots; entries that are empty after that are dropped, except for
\* a single extension.
build_extension_list(arg) ==
    LET e == Entries(arg)
        stripped == [i \in 1..Len(e) |-> LStripDot(e[i])]
    IN  IF arg.isfile \/ Contains(arg.text, <<",">>)
        THEN SelectSeq(stripped, LAMBDA x : x # <<>>)
        ELSE stripped

\* "|".join(words) and the like: the entries separated by sep.
Join(words, sep) ==
    LET F[i \in 0..Len(words)] ==
            IF i = 0 THEN <<>>
            ELSE IF i = 1 THEN words[1]
            ELSE F[i - 1] \o <<sep>> \o words[i]
    IN  F[Len(words)]

\* build_query (GooFuzz.py 168-223) without exclusions: the list of
\* <<label, query>> pairs of a mode.
build_query(target, mode, arg) ==
    CASE mode = "dictionary" /\ Entries(arg) # <<>> ->
           <<<<arg.text, <<"site:">> \o target \o <<"inurl:">> \o Join(Entries(arg), "|")>>>>
      [] mode = "extension" ->
           [i \in 1..Len(build_extension_list(arg)) |->
               <<build_extension_list(arg)[i],
                 <<"site:">> \o target \o <<"filetype:">> \o build_extension_list(arg)[i]>>]
      [] mode = "subdomain" ->
           <<<<<<"subdomains">>, <<"site:*.">> \o target \o <<"-site:www.">> \o target>>>>
      [] mode = "contents" /\ Entries(arg) # <<>> ->
           <<<<arg.text, <<"site:">> \o target \o <<"infile:">> \o Join(Entries(arg), "||")>>>>
      [] OTHER -> <<>>

\* main (GooFuzz.py 798-821): the queries of a run; mode "raw" is -r.
QueriesOf(target, mode, arg) ==
    IF mode = "raw" THEN <<<<<<"raw">>, arg.text>>>> ELSE build_query(target, mode, arg)

\* GooFuzz.py 500-506: the filetype filter of a query.
FiletypeOf(label, query) ==
    IF Truthy(label) /\ ~Contains(label, <<".">>) /\ label \notin {<<"subdomains">>, query}
    THEN label
    ELSE None

\* GooFuzz.py 290-332: the anchors of the first selector that yields some;
\* an exception of any query gives no anchors.
result_anchors(page) ==
    IF page.organic = Raises THEN <<>>
    ELSE IF page.organic # <<>> THEN page.organic
    ELSE IF page.container = Raises THEN <<>>
    ELSE IF page.container # <<>> THEN page.container
    ELSE IF page.any = Raises THEN <<>>
    ELSE page.any

FiletypeMatchesMut(href_lower, ext) == TRUE

\* GooFuzz.py 363-370: the URL ends with "." + ext or contains it.
FiletypeMatches(href_lower, ext) ==
    \/ EndsWith(href_lower, <<".">> \o ext)
    \/ Contains(href_lower, <<".">> \o ext)

\* GooFuzz.py 342-370: the filters an href passes to be appended to links.
KeepHref(href, target_lower, filetype) ==
    /\ Truthy(href)
    /\ ~Contains(href, <<"google", ".">>)
    /\ ~(/\ Contains(href, <<"bing", ".", "com">>)
         /\ Contains(href, <<"q=">>)
         /\ Contains(href, <<"redirect">>))
    /\ StartsWith(href, <<"http">>)
    /\ Contains(StrLower(href), target_lower)
    /\ Truthy(filetype) => FiletypeMatches(StrLower(href), StrLower(filetype))

UniqueMut(s) == s

\* GooFuzz.py 374-380: deduplicate preserving order.
Unique(s) ==
    LET F[i \in 0..Len(s)] ==
            IF i = 0 THEN <<>>
            ELSE IF \E j \in 1..Len(F[i - 1]) : F[i - 1][j] = s[i]
                 THEN F[i - 1]
                 ELSE Append(F[i - 1], s[i])
    IN  F[Len(s)]

\* extract_links_from_results (GooFuzz.py 272-382) for one of the engines it
\* knows.
extract_links_from_results(page, target, filetype) ==
    Unique(SelectSeq(result_anchors(page),
                     LAMBDA href : KeepHref(href, StrLower(target), filetype)))

\* --------------------------------------------------- query pipeline ----
\* QuerySpec: main builds the queries of one run from its arguments, and for
\* each query the page loop decides the filetype filter and extracts the
\* links of one results page.

\* -t: the target in lower case and with a capital.
Targets == {<<"t">>, <<"T">>}

Modes == {"raw", "dictionary", "extension", "subdomain", "contents"}

\* Arguments of -r, -w, -e and -c.
Args == {Arg(<<"e">>, FALSE, <<>>),
         Arg(<<".", "E">>, FALSE, <<>>),
         Arg(<<"e", ",", "tar", ".", "gz">>, FALSE, <<>>),
         Arg(<<"list", ".", "txt">>, TRUE, <<<<"E">>, <<"w">>>>),
         Arg(<<"raw">>, FALSE, <<>>)}

\* hrefs of a results page: results on the target with and without the
\* extension, Google's own links, a relative link, a foreign site, a Bing
\* redirect.
Hrefs == {<<"http", "t", "a">>,
          <<"http", "T", ".", "E">>,
          <<"http", "t", ".", "e", "x">>,
          <<"http", "google", ".", "t">>,
          <<"/", "t">>,
          <<"http", "o", ".", "e">>,
          <<"http", "bing", ".", "com", "q=", "redirect", "t">>}

Anchors == Hrefs \cup {None, <<>>}

AnchorLists == UNION {[1..n -> Anchors] : n \in 0..MaxAnchors}

\* Answers of the two fallback selectors.
FallbackAnswers == {Raises, <<>>, <<<<"http", "t", "a">>>>}

Pages ==
    {Page(o, c, a) : o \in AnchorLists \cup {Raises}, c \in FallbackAnswers,
                     a \in FallbackAnswers}

\* main (GooFuzz.py 798-825): build the queries; without a query the
\* program exits.
XMain ==
    /\ xpc = "main"
    /\ xqueries' = QueriesOf(xtarget, xmode, xarg)
    /\ IF xqueries' = <<>>
       THEN xpc' = "exit" /\ xi' = 0
       ELSE xpc' = "decide" /\ xi' = 1
    /\ UNCHANGED <<xtarget, xmode, xarg, xfiletype, xpage, xlinks>>
    /\ UNCHANGED <<solverVars, concVars, drvVars, resVars>>

\* GooFuzz.py 499-506: the filetype filter of the current query.
XDecide ==
    /\ xpc = "decide"
    /\ xfiletype' = FiletypeOf(xqueries[xi][1], xqueries[xi][2])
    /\ xpc' = "extract"
    /\ UNCHANGED <<xtarget, xmode, xarg, xqueries, xi, xpage, xlinks>>
    /\ UNCHANGED <<solverVars, concVars, drvVars, resVars>>

\* GooFuzz.py 517-522: one call of extract_links_from_results on the page
\* the browser shows.
XExtract ==
    /\ xpc = "extract"
    /\ \E p \in Pages :
        /\ xpage' = p
        /\ xlinks' = extract_links_from_results(p, xtarget, xfiletype)
    /\ xpc' = "next"
    /\ UNCHANGED <<xtarget, xmode, xarg, xqueries, xi, xfiletype>>
    /\ UNCHANGED <<solverVars, concVars, drvVars, resVars>>

\* `for label, query in queries` (GooFuzz.py 442): the next query, if any;
\* the browser then leaves the page (457) and links is reset (511).
XNext ==
    /\ xpc = "next"
    /\ IF xi < Len(xqueries)
       THEN /\ xi' = xi + 1
            /\ xpc' = "decide"
            /\ xpage' = NoPage
            /\ xlinks' = <<>>
       ELSE /\ xpc' = "done"
            /\ UNCHANGED <<xi, xpage, xlinks>>
    /\ UNCHANGED <<xtarget, xmode, xarg, xqueries, xfiletype>>
    /\ UNCHANGED <<solverVars, concVars, drvVars, resVars>>

QueryNext ==
    \/ XMain
    \/ XDecide
    \/ XExtract
    \/ XNext

\* ------------------------------------------------ result containers ----
\* ResultsSpec: the three containers of run_query_with_browser through the
\* automatic phase and the realtime monitoring, one extraction at a time.

\* The hrefs the engine tabs show in ResultsSpec.
TabHrefs == {<<"http", "t", "a">>, <<"http", "T", ".", "E">>, <<"http", "google", ".", "t">>}

TabPages ==
    {Page(o, Raises, Raises) :
        o \in UNION {[1..n -> TabHrefs] : n \in 0..MaxAnchors} \cup {Raises}}

Range(s) == {s[i] : i \in 1..Len(s)}

NewLinksMut(found, seen) == found

\* new_links = [link for link in links if link not in seen_links]
\* (GooFuzz.py 548, 765)
NewLinks(found, seen) == SelectSeq(found, LAMBDA link : link \notin seen)

\* GooFuzz.py 550-554, 770-774: record the new links under the engine.
Record(found, engine) ==
    /\ seen_links' = seen_links \cup Range(NewLinks(found, seen_links))
    /\ all_results_for_output' = all_results_for_output \o NewLinks(found, seen_links)
    /\ urls_by_engine' =
           [urls_by_engine EXCEPT ![engine] = @ \o NewLinks(found, seen_links)]

\* The result of one extraction on an engine's tab; yielded_by keeps, for
\* every link, the engine whose tab returned it first.
Extracted(found, engine) ==
    /\ rlinks' = found
    /\ yielded_by' = yielded_by \cup
           {<<found[i], engine>> : i \in {j \in 1..Len(found) :
                                            \A y \in yielded_by : y[1] # found[j]}}

\* GooFuzz.py 513-531: the extraction that ends the attempts of a page.
RExtract ==
    /\ rpc = "extract"
    /\ \E p \in TabPages, ft \in {None, <<"e">>} :
        Extracted(extract_links_from_results(p, <<"t">>, ft), reng)
    /\ rpc' = "process"
    /\ UNCHANGED <<reng, seen_links, all_results_for_output, urls_by_engine>>
    /\ UNCHANGED <<solverVars, concVars, drvVars, queryVars>>

\* GooFuzz.py 547-554: the links of the page are recorded.
RProcess ==
    /\ rpc = "process"
    /\ Record(rlinks, reng)
    /\ rpc' = "page_done"
    /\ UNCHANGED <<reng, rlinks, yielded_by>>
    /\ UNCHANGED <<solverVars, concVars, drvVars, queryVars>>

\* The three for loops (GooFuzz.py 436, 442, 454): another page on the same
\* engine, or the first page of the next engine, or the end of the loops:
\* the realtime monitoring when keep_open, else the end.
RNextPage ==
    /\ rpc = "page_done"
    /\ \/ rpc' = "extract" /\ UNCHANGED reng
       \/ reng < MaxEngines /\ reng' = reng + 1 /\ rpc' = "extract"
       \/ reng = MaxEngines /\ reng' = 1 /\ rpc' \in {"monitor", "done"}
    /\ UNCHANGED <<rlinks, seen_links, all_results_for_output, urls_by_engine, yielded_by>>
    /\ UNCHANGED <<solverVars, concVars, drvVars, queryVars>>

\* monitor_tabs_realtime, GooFuzz.py 753-763: the extraction on one tab.
RMonitorExtract ==
    /\ rpc = "monitor"
    /\ \E p \in TabPages :
        Extracted(extract_links_from_results(p, <<"t">>, None), reng)
    /\ rpc' = "monitor_process"
    /\ UNCHANGED <<reng, seen_links, all_results_for_output, urls_by_engine>>
    /\ UNCHANGED <<solverVars, concVars, drvVars, queryVars>>

\* GooFuzz.py 765-779: the new links of the tab are recorded; the next tab
\* follows, the first one again after the last.
RMonitorProcess ==
    /\ rpc = "monitor_process"
    /\ Record(rlinks, reng)
    /\ reng' = IF reng < MaxEngines THEN reng + 1 ELSE 1
    /\ rpc' = "monitor"
    /\ UNCHANGED <<rlinks, yielded_by>>
    /\ UNCHANGED <<solverVars, concVars, drvVars, queryVars>>

\* GooFuzz.py 781-782: Ctrl+C ends the monitoring.
RInterrupt ==
    /\ rpc \in {"monitor", "monitor_process"}
    /\ rpc' = "done"
    /\ UNCHANGED <<reng, rlinks, seen_links, all_results_for_output, urls_by_engine,
                   yielded_by>>
    /\ UNCHANGED <<solverVars, concVars, drvVars, queryVars>>

QueryInit ==
    /\ SolverIdle
    /\ ConcIdle
    /\ DrvIdle
    /\ ResultsIdle
    /\ xpc = "main"
    /\ xtarget \in Targets
    /\ xmode \in Modes
    /\ xarg \in Args
    /\ xqueries = <<>>
    /\ xi = 0
    /\ xfiletype = None
    /\ xpage = NoPage
    /\ xlinks = <<>>

QuerySpec == QueryInit /\ [][QueryNext]_vars

ResultsInit ==
    /\ SolverIdle
    /\ ConcIdle
    /\ DrvIdle
    /\ QueryIdle
    /\ rpc = "extract"
    /\ reng = 1
    /\ rlinks = <<>>
    /\ seen_links = {}
    /\ all_results_for_output = <<>>
    /\ urls_by_engine = [e \in 1..MaxEngines |-> <<>>]
    /\ yielded_by = {}

ResultsNext ==
    \/ RExtract
    \/ RProcess
    \/ RNextPage
    \/ RMonitorExtract
    \/ RMonitorProcess
    \/ RInterrupt

ResultsSpec == ResultsInit /\ [][ResultsNext]_vars

\* ------------------------------------------------ claims C21 .. C30 ----

\* C21: the challenge iframe is waited for only after the solved-indicator
\* has been queried: every wait for the iframe, and so every failure of that
\* wait that ends the attempt, comes after an indicator query of the call.
C21_IndicatorBeforeIframeWait ==
    \A i \in CallsOf("wait_iframe") :
        \E j \in CallsOf("query_indicator") : j < i

\* C22: Enter is sent to the answer field only right after the recognised
\* text was typed into it successfully in the same call; when typing the
\* text fails, no Enter is sent and the call has ended.
C22_EnterAfterText ==
    /\ \A i \in KeysTyped :
          /\ i > 1
          /\ typed[i - 1].kind = "text"
          /\ typed[i - 1].ok
          /\ CalledOk("input_text")
    /\ CalledFail("input_text") =>
          /\ KeysTyped = {}
          /\ ~Called("input_enter")
          /\ ~Running

C22_Witness ==
    /\ CalledFail("input_text")
    /\ ~Running
    /\ \E c \in history : c.exit = "L107"

\* C23: maybe_solve_recaptcha never raises to the page loop, in GooFuzz.py
\* and in GooFuzz_minimal.py: no exception that leaves run_query_with_browser
\* came out of the maybe_solve_recaptcha call.
C23_NeverRaises == raisedIn # "maybe_solve_recaptcha"

\* C24: maybe_solve_recaptcha runs solver.solveCaptcha() exactly when the
\* page text holds one of the four ban signatures in any letter case (that
\* is, when the lower-cased text contains it), only from its detection
\* step, and at most once for a fetched page.
C24_SolverIffBan ==
    /\ [](solverRuns <= 1)
    /\ [][/\ (dpc = "detect" /\ dpc' # "detect") =>
                ((solverRuns' = solverRuns + 1) <=>
                    \E f \in html :
                        f[1] \in {"our systems have detected unusual traffic",
                                  "to continue, please type the characters below",
                                  "recaptcha",
                                  "unusual traffic from your computer network"})
          /\ dpc # "detect" => solverRuns' <= solverRuns]_vars

C24_Witness == solverRuns = 1 /\ dpc = "save" /\ eng = 2

\* The run is past the processing of a page that page_obj.get() fetched.
PastFetchedPage ==
    /\ requested
    /\ raisedIn # "get"
    /\ dpc \notin {"wait", "captcha", "detect", "save", "extract"}

\* C25: in GooFuzz.py every fetched page gets at least one and at most 3
\* calls of extract_links_from_results; the loop is left at the first call
\* that returns links; a 3 s sleep follows every call that returned nothing
\* except the third.
C25_ExtractionAttempts ==
    variant = "GooFuzz" =>
        /\ extraction_attempts <= 3
        /\ PastFetchedPage => extraction_attempts >= 1
        /\ dpc = "extract" => ~links
        /\ retry_sleeps = IF links THEN extraction_attempts - 1
                          ELSE IF extraction_attempts = 3 THEN 2
                          ELSE extraction_attempts

\* C26: once the user has declined to continue on an engine, no further
\* search page is requested on that engine.
C26_EngineStops == dpc = "wait" => eng \notin stopped

\* C28: in GooFuzz.py the CAPTCHA detection, the HTML dump and the link
\* extraction of a page run only when the load wait has seen the body
\* element of that page.
C28_LoadConfirmed ==
    (variant = "GooFuzz"
     /\ dpc \in {"captcha", "detect", "save", "extract", "choice", "process"}) => loaded

\* Number of times x occurs in the list s.
Occurrences(s, x) == Cardinality({i \in 1..Len(s) : s[i] = x})

C29_FilterOnlyForExtensions ==
    (xpc = "next" /\ xmode # "extension") =>
        /\ ~Truthy(xfiletype)
        /\ \A i \in 1..Len(result_anchors(xpage)) :
              KeepHref(result_anchors(xpage)[i], StrLower(xtarget), None) =>
                  \E j \in 1..Len(xlinks) : xlinks[j] = result_anchors(xpage)[i]

\* Position of the first occurrence of x in s.
FirstIndex(s, x) == CHOOSE i \in 1..Len(s) : s[i] = x /\ \A j \in 1..(i - 1) : s[j] # x

\* A query of the page raised before any selector had returned anchors.
QueryFailed(p) ==
    \/ p.organic = Raises
    \/ p.organic = <<>> /\ p.container = Raises
    \/ p.organic = <<>> /\ p.container = <<>> /\ p.any = Raises

\* C30: the list extract_links_from_results returns has no duplicates and
\* keeps the anchors in the order of their first occurrence on the page;
\* every link starts with "http", contains the target and, when a filetype
\* is given, "." + filetype, both whatever the letter case, and does not
\* contain "google."; when a query of the page fails the list is empty.
C30_ExtractedLinks ==
    xpc \in {"next", "done"} =>
        /\ \A i, j \in 1..Len(xlinks) : i # j => xlinks[i] # xlinks[j]
        /\ \A i \in 1..Len(xlinks) :
              \E k \in 1..Len(result_anchors(xpage)) : result_anchors(xpage)[k] = xlinks[i]
        /\ \A i, j \in 1..Len(xlinks) :
              i < j => FirstIndex(result_anchors(xpage), xlinks[i])
                         < FirstIndex(result_anchors(xpage), xlinks[j])
        /\ \A i \in 1..Len(xlinks) :
              /\ StartsWith(xlinks[i], <<"http">>)
              /\ Contains(StrLower(xlinks[i]), StrLower(xtarget))
              /\ ~Contains(xlinks[i], <<"google", ".">>)
              /\ Truthy(xfiletype) =>
                    Contains(StrLower(xlinks[i]), <<".">> \o StrLower(xfiletype))
        /\ QueryFailed(xpage) => xlinks = <<>>

C30_Witness ==
    /\ xpc = "next"
    /\ Truthy(xfiletype)
    /\ Len(xpage.organic) = 2
    /\ xpage.organic[1] = xpage.organic[2]
    /\ Len(xlinks) = 1

\* ------------------------------------------------ claims C31 .. C32 ----

\* run_query_with_browser has been left: its finally block has run.
Exited == dpc \in {"save_files", "done", "raised"}

\* C31: the browser is never closed before run_query_with_browser leaves
\* its try block; on every way out, at the end of the loops or with an
\* exception, browser.close() has been called exactly once, except when
\* keep_open was passed (GooFuzz.py), and then not at all.
C31_ClosedOnceOnExit ==
    /\ ~Exited => closed = 0
    /\ (Exited /\ ~(variant = "GooFuzz" /\ keep_open)) => closed = 1
    /\ (Exited /\ variant = "GooFuzz" /\ keep_open) => closed = 0

C31_Witness == dpc = "raised" /\ raisedIn = "get" /\ closed = 1 /\ variant = "GooFuzz"

\* The step (try block) an external call belongs to.
StepOf(op) ==
    CASE op = "query_indicator" -> "is_solved"
      [] op \in {"input_text", "input_enter"} -> "submit"
      [] OTHER -> op

\* Every external call of the running call comes after the intent line of
\* its step.
IntentBeforeAction ==
    \A i \in CallsAt : \E j \in 1..(i - 1) : trace[j] = Info(StepOf(trace[i][2]))

\* Every failed external call is followed by the error line of its step.
ErrorAfterFailure ==
    \A i \in CallsAt :
        trace[i][3] = FALSE =>
            \E j \in (i + 1)..Len(trace) : trace[j] = Error(StepOf(trace[i][2]))

\* The call took the failure exit of a step (its error line is the last
\* thing printed) only when an action of that step failed.
FailureExitOnlyOnFailure ==
    (~Running /\ Len(trace) > 0 /\ trace[Len(trace)][1] = "ERROR") =>
        \E i \in CallsAt :
            /\ trace[i][3] = FALSE
            /\ StepOf(trace[i][2]) = trace[Len(trace)][2]

\* C32: every step prints its intent line before its action, every attempt
\* that ends because a step failed has printed the error line of that step
\* before it stops, and the step taken next does not depend on logging: the
\* failure exit of a step is taken only when its action failed.
C32_LoggingOnly ==
    /\ IntentBeforeAction
    /\ ~Running => ErrorAfterFailure
    /\ FailureExitOnlyOnFailure

====
